---- MODULE Spec2Model ----
(***************************************************************************)
(* go-safego: launchers that run a task in a goroutine behind a deferred   *)
(* recover(), with an optional context checked once before the task body   *)
(* runs, and one of three outcome sinks: the package logger (Go), a        *)
(* caller-supplied errorHandler (GoWithErrorHandler) or a buffered channel *)
(* of Done (ChanGo, ChanGoWithError).                                      *)
(*                                                                         *)
(* One invocation is a slot of Tasks.  Each goroutine is a small program   *)
(* counter machine:                                                        *)
(*   idle -> created -> running | sink -> deferred                         *)
(*        -> deferSink | send -> close -> done | crashed                   *)
(* "crashed" is a goroutine that ended by an unrecovered panic.            *)
(***************************************************************************)
EXTENDS Integers, Sequences, FiniteSets, TLC

\* ------------------------------------------------------------------ bounds
\* number of launcher invocations in one behaviour
MaxTasks == 1
\* number of receives the caller performs on one completion channel
MaxRecv == 2
\* number of SetLogger calls in one behaviour
MaxSets == 1

Tasks == 1..MaxTasks
Setters == 1..MaxSets

\* ------------------------------------------------------------- input sets
Kinds == {"Go", "GoWithErrorHandler", "ChanGo", "ChanGoWithError"}
ChanKinds == {"ChanGo", "ChanGoWithError"}
\* launchers whose fn has the signature func() error
FallibleKinds == {"GoWithErrorHandler", "ChanGoWithError"}

\* the variadic ctx argument: absent, or the one context of the model
NoCtx == "noctx"
TheCtx == "ctx"
CtxArgs == {NoCtx, TheCtx}

\* ctx.Err(): nil while the context is live, then set once
CtxLive == "nil"
CtxErrors == {"context canceled", "context deadline exceeded"}

\* values a task body may pass to panic(): a string and an int that print alike
StrP(s) == [k |-> "string", s |-> s]
IntP(n) == [k |-> "int", n |-> n]
Payloads == {StrP("boom"), StrP("7"), IntP(7)}
\* value a panicking errorHandler passes to panic()
HandlerPayload == StrP("handler failed")

\* non-nil error values a fallible task body may return
TaskErr(m) == [type |-> "taskError", msg |-> m]
TaskErrors == {TaskErr("X"), TaskErr("task failed")}

\* ------------------------------------------------------------ error values
\* the nil error interface value
NilErr == [type |-> "nil"]

DigitStr(d) ==
    CASE d = 0 -> "0" [] d = 1 -> "1" [] d = 2 -> "2" [] d = 3 -> "3"
      [] d = 4 -> "4" [] d = 5 -> "5" [] d = 6 -> "6" [] d = 7 -> "7"
      [] d = 8 -> "8" [] d = 9 -> "9"

RECURSIVE IntStr(_)
IntStr(n) == IF n < 10 THEN DigitStr(n) ELSE IntStr(n \div 10) \o DigitStr(n % 10)

\* fmt's %v verb applied to a panic payload
FmtValue(v) == IF v.k = "string" THEN v.s ELSE IntStr(v.n)

\* debug.Stack(): the formatted stack of the calling goroutine
DebugStack == "goroutine [running]:\nruntime/debug.Stack()"

\* &PanicError{Value: r, StackTrace: string(debug.Stack())}
PanicError(r) == [type |-> "PanicError", Value |-> r, StackTrace |-> DebugStack]

\* &CancelError{Cause: c.Err()}
CancelError(cause) == [type |-> "CancelError", Cause |-> cause]

\* errors.New(s)
ErrorsNew(s) == [type |-> "errorString", msg |-> s]

\* errors.New(fmt.Sprintf("recovered from panic in goroutine: %v", r))
RecoveredMsg(r) == "recovered from panic in goroutine: " \o FmtValue(r)

\* fmt.Sprintf("goroutine cancelled: %v", c.Err())
CancelledMsg(cause) == "goroutine cancelled: " \o cause

\* ------------------------------------------------------------------ panics
NoPanic == [origin |-> "none"]
TaskPanic(p) == [origin |-> "task", v |-> p]
HandlerPanic == [origin |-> "handler", v |-> HandlerPayload]
\* the runtime's panic for a send on, or a close of, a closed channel
RuntimePanic(m) == [origin |-> "runtime", v |-> StrP(m)]

\* what fn did, as observed when it finished
NotRun == [t |-> "notrun"]
Returned == [t |-> "return"]
ReturnedErr(e) == [t |-> "error", e |-> e]
Panicked(p) == [t |-> "panic", v |-> p]

\* ------------------------------------------------------------------- state
VARIABLES
    kind,        \* launcher of each invocation, "none" before the call
    ctxArg,      \* the ctx argument of each invocation
    pc,          \* position of the launched goroutine
    ckpt,        \* what the select at the checkpoint observed
    fnCalls,     \* number of invocations of the task body fn
    fnOut,       \* how fn finished
    err,         \* the captured variable err of ChanGo / ChanGoWithError
    panicking,   \* the panic in flight in the goroutine
    pending,     \* argument of the sink call the goroutine is about to make
    chBuf,       \* contents of doneCh (capacity 1)
    chClosed,    \* doneCh has been closed
    sent,        \* every Done ever sent on doneCh, in order
    closes,      \* number of close(doneCh) executed
    rcvd,        \* what the caller's receives on doneCh returned, in order
    handlerArgs, \* arguments of every errorHandler invocation, in order
    handlerPanics, \* number of errorHandler invocations that panicked
    logged,      \* messages passed to logger.Printf, with the logger read
    ctxErr,      \* ctx.Err() of the context
    logger,      \* the package-level logger variable: an interface value of
                 \* two words, the type word (tab) and the data word
    callPc,      \* position of the caller inside the launcher call
    launchCtxErr, \* ctx.Err() at the moment the launcher was called
    cancelAt,    \* position of each caller (callPc) when the context was cancelled
    launchSet,   \* the SetLogger call that had returned last when the
                 \* launcher was called ("racing" when one was in progress)
    setPc,       \* position of each SetLogger call
    setArg,      \* the argument l of each SetLogger call
    lastSet      \* argument of the SetLogger call that returned last

vars == <<kind, ctxArg, pc, ckpt, fnCalls, fnOut, err, panicking, pending,
          chBuf, chClosed, sent, closes, rcvd, handlerArgs, handlerPanics,
          logged, ctxErr, logger, callPc, launchCtxErr, cancelAt, launchSet,
          setPc, setArg, lastSet>>

taskVars == <<kind, ctxArg, pc, ckpt, fnCalls, fnOut, err, panicking, pending>>
chanVars == <<chBuf, chClosed, sent, closes, rcvd>>
sinkVars == <<handlerArgs, handlerPanics, logged>>
callVars == <<callPc, launchCtxErr, cancelAt, launchSet>>
logVars == <<logger, setPc, setArg, lastSet>>

\* ChanCap of a channel made without a buffer: make(chan Done)
ChanCapUnbuffered == Len(<<>>)

\* capacity of make(chan Done, 1)
ChanCap == 1

\* Done{Error: e}
Done(e) == [Error |-> e]

\* the zero value a receive on a closed, empty channel yields
ZeroDone == [Error |-> NilErr, ok |-> FALSE]

\* the Logger implementations: &defaultLogger{}, &noopLogger{}, and a
\* logger of the caller's such as &customLogger{}
DefaultLogger == "defaultLogger"
NoopLogger == "noopLogger"
CustomLogger == "customLogger"
\* the nil Logger passed to SetLogger
NilLogger == "nil"
\* the arguments of SetLogger
LoggerArgs == {NilLogger, CustomLogger}

\* an interface value holding x: both words are x's
Iface(x) == [tab |-> x, data |-> x]

Init ==
    /\ kind = [g \in Tasks |-> "none"]
    /\ ctxArg = [g \in Tasks |-> NoCtx]
    /\ pc = [g \in Tasks |-> "idle"]
    /\ ckpt = [g \in Tasks |-> "none"]
    /\ fnCalls = [g \in Tasks |-> 0]
    /\ fnOut = [g \in Tasks |-> NotRun]
    /\ err = [g \in Tasks |-> NilErr]
    /\ panicking = [g \in Tasks |-> NoPanic]
    /\ pending = [g \in Tasks |-> NilErr]
    /\ chBuf = [g \in Tasks |-> <<>>]
    /\ chClosed = [g \in Tasks |-> FALSE]
    /\ sent = [g \in Tasks |-> <<>>]
    /\ closes = [g \in Tasks |-> 0]
    /\ rcvd = [g \in Tasks |-> <<>>]
    /\ handlerArgs = [g \in Tasks |-> <<>>]
    /\ handlerPanics = [g \in Tasks |-> 0]
    /\ logged = [g \in Tasks |-> <<>>]
    /\ ctxErr = CtxLive
    /\ logger = Iface(DefaultLogger)
    /\ callPc = [g \in Tasks |-> "none"]
    /\ launchCtxErr = [g \in Tasks |-> CtxLive]
    /\ cancelAt = [g \in Tasks |-> "live"]
    /\ launchSet = [g \in Tasks |-> "none"]
    /\ setPc = [c \in Setters |-> "idle"]
    /\ setArg = [c \in Setters |-> NilLogger]
    /\ lastSet = "none"

\* ----------------------------------------------------------------- actions
\* a SetLogger call is between its call and its return
SetInProgress == \E c \in Setters : setPc[c] \notin {"idle", "returned"}

\* The caller calls one of the four launchers: the channel is made and the
\* go statement starts the goroutine.  Invocations take the slots in order.
Launch(g, k, c) ==
    /\ pc[g] = "idle"
    /\ \A h \in Tasks : h < g => pc[h] # "idle"
    /\ kind' = [kind EXCEPT ![g] = k]
    /\ ctxArg' = [ctxArg EXCEPT ![g] = c]
    /\ pc' = [pc EXCEPT ![g] = "created"]
    /\ callPc' = [callPc EXCEPT ![g] = "called"]
    /\ launchCtxErr' = [launchCtxErr EXCEPT ![g] = ctxErr]
    /\ launchSet' = [launchSet EXCEPT ![g] = IF SetInProgress THEN "racing" ELSE lastSet]
    /\ UNCHANGED <<ckpt, fnCalls, fnOut, err, panicking, pending>>
    /\ UNCHANGED <<chanVars, sinkVars, ctxErr, cancelAt, logVars>>

\* LauncherReturns with the launcher waiting for its goroutine to end before
\* it returns
LauncherReturnsAfterDone(g) ==
    /\ callPc[g] = "called"
    /\ pc[g] \in {"done", "crashed"}
    /\ callPc' = [callPc EXCEPT ![g] = "returned"]
    /\ UNCHANGED <<launchCtxErr, cancelAt, launchSet>>
    /\ UNCHANGED <<taskVars, chanVars, sinkVars, ctxErr, logVars>>

\* The launcher returns to its caller (return doneCh, or the end of Go /
\* GoWithErrorHandler): the statement after the go statement, which waits
\* for nothing.
LauncherReturns(g) ==
    /\ callPc[g] = "called"
    /\ callPc' = [callPc EXCEPT ![g] = "returned"]
    /\ UNCHANGED <<launchCtxErr, cancelAt, launchSet>>
    /\ UNCHANGED <<taskVars, chanVars, sinkVars, ctxErr, logVars>>

\* The owner of the context cancels it, or its deadline passes.
Cancel(e) ==
    /\ ctxErr = CtxLive
    /\ ctxErr' = e
    /\ cancelAt' = callPc
    /\ UNCHANGED <<callPc, launchCtxErr, launchSet>>
    /\ UNCHANGED <<taskVars, chanVars, sinkVars, logVars>>

\* CtxDone with the test len(ctx) > 1 in place of len(ctx) > 0: a single
\* context argument is never looked at
CtxDoneOffByOne(g) == ctxArg[g] # NoCtx /\ ctxArg[g] # TheCtx /\ ctxErr # CtxLive

\* CtxDone with the select lacking its default case in effect: a supplied
\* context counts as done whether or not it is
CtxDoneAnyCtx(g) == ctxArg[g] # NoCtx

\* the select on c.Done() with a default case
CtxDone(g) == ctxArg[g] # NoCtx /\ ctxErr # CtxLive

\* CancelReport without the CancelError type: every launcher reports the
\* formatted message
CancelReportUntyped(k) ==
    IF k = "Go" THEN CancelledMsg(ctxErr) ELSE ErrorsNew(CancelledMsg(ctxErr))

\* what the cancelled branch of the select hands to the launcher's sink
CancelReport(k) ==
    IF k = "Go" THEN CancelledMsg(ctxErr)
    ELSE IF k = "GoWithErrorHandler" THEN ErrorsNew(CancelledMsg(ctxErr))
    ELSE CancelError(ctxErr)

\* Checkpoint with the send of the Done placed ahead of the call of fn
CheckpointEarlySend(g) ==
    /\ pc[g] = "created"
    /\ IF CtxDone(g)
       THEN /\ ckpt' = [ckpt EXCEPT ![g] = "cancelled"]
            /\ IF kind[g] \in ChanKinds
               THEN /\ err' = [err EXCEPT ![g] = CancelError(ctxErr)]
                    /\ pc' = [pc EXCEPT ![g] = "deferred"]
                    /\ UNCHANGED pending
               ELSE /\ pending' = [pending EXCEPT ![g] =
                                      IF kind[g] = "Go" THEN CancelledMsg(ctxErr)
                                      ELSE ErrorsNew(CancelledMsg(ctxErr))]
                    /\ pc' = [pc EXCEPT ![g] = "sink"]
                    /\ UNCHANGED err
            /\ UNCHANGED <<fnCalls, chBuf, sent>>
       ELSE /\ ckpt' = [ckpt EXCEPT ![g] = IF ctxArg[g] = NoCtx THEN "noctx" ELSE "live"]
            /\ fnCalls' = [fnCalls EXCEPT ![g] = @ + 1]
            /\ pc' = [pc EXCEPT ![g] = "running"]
            /\ IF kind[g] \in ChanKinds
               THEN /\ chBuf' = [chBuf EXCEPT ![g] = Append(@, Done(err[g]))]
                    /\ sent' = [sent EXCEPT ![g] = Append(@, Done(err[g]))]
               ELSE UNCHANGED <<chBuf, sent>>
            /\ UNCHANGED <<err, pending>>
    /\ UNCHANGED <<kind, ctxArg, fnOut, panicking>>
    /\ UNCHANGED <<chClosed, closes, rcvd, sinkVars, ctxErr, logVars, callVars>>

\* The goroutine runs up to the call of fn: if a context was passed and it
\* is done, the cancellation is reported and fn is skipped; otherwise fn is
\* invoked.
Checkpoint(g) ==
    /\ pc[g] = "created"
    /\ IF CtxDone(g)
       THEN /\ ckpt' = [ckpt EXCEPT ![g] = "cancelled"]
            /\ IF kind[g] \in ChanKinds
               THEN /\ err' = [err EXCEPT ![g] = CancelReport(kind[g])]
                    /\ pc' = [pc EXCEPT ![g] = "deferred"]
                    /\ UNCHANGED pending
               ELSE /\ pending' = [pending EXCEPT ![g] = CancelReport(kind[g])]
                    /\ pc' = [pc EXCEPT ![g] = "sink"]
                    /\ UNCHANGED err
            /\ UNCHANGED fnCalls
       ELSE /\ ckpt' = [ckpt EXCEPT ![g] = IF ctxArg[g] = NoCtx THEN "noctx" ELSE "live"]
            /\ fnCalls' = [fnCalls EXCEPT ![g] = @ + 1]
            /\ pc' = [pc EXCEPT ![g] = "running"]
            /\ UNCHANGED <<err, pending>>
    /\ UNCHANGED <<kind, ctxArg, fnOut, panicking>>
    /\ UNCHANGED <<chanVars, sinkVars, ctxErr, logVars, callVars>>

\* FnReturns with the test err != nil of GoWithErrorHandler left out:
\* errorHandler(err) is called with the nil error as well
FnReturnsReportsNil(g) ==
    /\ pc[g] = "running"
    /\ fnOut' = [fnOut EXCEPT ![g] = Returned]
    /\ IF kind[g] = "GoWithErrorHandler"
       THEN /\ pending' = [pending EXCEPT ![g] = NilErr]
            /\ pc' = [pc EXCEPT ![g] = "sink"]
       ELSE /\ pc' = [pc EXCEPT ![g] = "deferred"]
            /\ UNCHANGED pending
    /\ UNCHANGED <<kind, ctxArg, ckpt, fnCalls, err, panicking>>
    /\ UNCHANGED <<chanVars, sinkVars, ctxErr, logVars, callVars>>

\* fn returns (nil, for a fallible fn)
FnReturns(g) ==
    /\ pc[g] = "running"
    /\ fnOut' = [fnOut EXCEPT ![g] = Returned]
    /\ pc' = [pc EXCEPT ![g] = "deferred"]
    /\ UNCHANGED <<kind, ctxArg, ckpt, fnCalls, err, panicking, pending>>
    /\ UNCHANGED <<chanVars, sinkVars, ctxErr, logVars, callVars>>

\* FnReturnsError with the error of fn discarded: neither stored in err nor
\* handed to errorHandler
FnReturnsErrorDropped(g, e) ==
    /\ pc[g] = "running"
    /\ kind[g] \in FallibleKinds
    /\ fnOut' = [fnOut EXCEPT ![g] = ReturnedErr(e)]
    /\ pc' = [pc EXCEPT ![g] = "deferred"]
    /\ UNCHANGED <<kind, ctxArg, ckpt, fnCalls, err, panicking, pending>>
    /\ UNCHANGED <<chanVars, sinkVars, ctxErr, logVars, callVars>>

\* fn returns a non-nil error: ChanGoWithError stores it in err,
\* GoWithErrorHandler goes on to call errorHandler(err)
FnReturnsError(g, e) ==
    /\ pc[g] = "running"
    /\ kind[g] \in FallibleKinds
    /\ fnOut' = [fnOut EXCEPT ![g] = ReturnedErr(e)]
    /\ IF kind[g] = "ChanGoWithError"
       THEN /\ err' = [err EXCEPT ![g] = e]
            /\ pc' = [pc EXCEPT ![g] = "deferred"]
            /\ UNCHANGED pending
       ELSE /\ pending' = [pending EXCEPT ![g] = e]
            /\ pc' = [pc EXCEPT ![g] = "sink"]
            /\ UNCHANGED err
    /\ UNCHANGED <<kind, ctxArg, ckpt, fnCalls, panicking>>
    /\ UNCHANGED <<chanVars, sinkVars, ctxErr, logVars, callVars>>

\* fn panics with payload p: the goroutine unwinds into the deferred function
FnPanics(g, p) ==
    /\ pc[g] = "running"
    /\ fnOut' = [fnOut EXCEPT ![g] = Panicked(p)]
    /\ panicking' = [panicking EXCEPT ![g] = TaskPanic(p)]
    /\ pc' = [pc EXCEPT ![g] = "deferred"]
    /\ UNCHANGED <<kind, ctxArg, ckpt, fnCalls, err, pending>>
    /\ UNCHANGED <<chanVars, sinkVars, ctxErr, logVars, callVars>>

\* logger.Printf(format, v): the goroutine reads the package variable logger
\* and calls it; defaultLogger forwards to log.Printf, which returns
LogPrintf(g, m) == Append(logged[g], [logger |-> logger, msg |-> m])

\* The sink call made from the body of the goroutine returns: logger.Printf
\* of the cancellation note (Go), errorHandler(e) of the cancellation error
\* or errorHandler(err) of fn's error (GoWithErrorHandler).  The body is
\* over and the deferred function runs next.
SinkReturns(g) ==
    /\ pc[g] = "sink"
    /\ IF kind[g] = "Go"
       THEN /\ logged' = [logged EXCEPT ![g] = LogPrintf(g, pending[g])]
            /\ UNCHANGED handlerArgs
       ELSE /\ handlerArgs' = [handlerArgs EXCEPT ![g] = Append(@, pending[g])]
            /\ UNCHANGED logged
    /\ pc' = [pc EXCEPT ![g] = "deferred"]
    /\ UNCHANGED <<kind, ctxArg, ckpt, fnCalls, fnOut, err, panicking, pending>>
    /\ UNCHANGED <<chanVars, handlerPanics, ctxErr, logVars, callVars>>

\* errorHandler, called from the body, panics: the goroutine unwinds into
\* the deferred function with the handler's panic in flight
SinkPanics(g) ==
    /\ pc[g] = "sink"
    /\ kind[g] = "GoWithErrorHandler"
    /\ handlerArgs' = [handlerArgs EXCEPT ![g] = Append(@, pending[g])]
    /\ handlerPanics' = [handlerPanics EXCEPT ![g] = @ + 1]
    /\ panicking' = [panicking EXCEPT ![g] = HandlerPanic]
    /\ pc' = [pc EXCEPT ![g] = "deferred"]
    /\ UNCHANGED <<kind, ctxArg, ckpt, fnCalls, fnOut, err, pending>>
    /\ UNCHANGED <<chanVars, logged, ctxErr, logVars, callVars>>

\* r := recover() in the deferred function: the value of the panic in
\* flight, nil when there is none; the panic stops
Recover(g) == IF panicking[g] = NoPanic THEN NilErr ELSE panicking[g].v

\* PanicReport without the PanicError type: every launcher reports the
\* formatted message
PanicReportUntyped(k, r) ==
    IF k = "Go" THEN RecoveredMsg(r) ELSE ErrorsNew(RecoveredMsg(r))

\* what the deferred function hands to the launcher's sink for a recovered r
PanicReport(k, r) ==
    IF k = "Go" THEN RecoveredMsg(r)
    ELSE IF k = "GoWithErrorHandler" THEN ErrorsNew(RecoveredMsg(r))
    ELSE PanicError(r)

\* DeferRecover with a Done sent from inside the r != nil branch, ahead of
\* the send that follows it
DeferRecoverDoubleSend(g) ==
    /\ pc[g] = "deferred"
    /\ LET r == IF panicking[g] = NoPanic THEN NilErr ELSE panicking[g].v IN
       /\ panicking' = [panicking EXCEPT ![g] = NoPanic]
       /\ IF kind[g] \in ChanKinds
          THEN /\ err' = [err EXCEPT ![g] = IF r # NilErr THEN PanicError(r) ELSE @]
               /\ pc' = [pc EXCEPT ![g] = "send"]
               /\ IF r # NilErr
                  THEN /\ Len(chBuf[g]) < ChanCap
                       /\ chBuf' = [chBuf EXCEPT ![g] = Append(@, Done(PanicError(r)))]
                       /\ sent' = [sent EXCEPT ![g] = Append(@, Done(PanicError(r)))]
                  ELSE UNCHANGED <<chBuf, sent>>
               /\ UNCHANGED pending
          ELSE /\ pending' = [pending EXCEPT ![g] =
                                 IF r # NilErr
                                 THEN IF kind[g] = "Go" THEN RecoveredMsg(r)
                                      ELSE ErrorsNew(RecoveredMsg(r))
                                 ELSE @]
               /\ pc' = [pc EXCEPT ![g] = IF r # NilErr THEN "deferSink" ELSE "done"]
               /\ UNCHANGED <<err, chBuf, sent>>
    /\ UNCHANGED <<kind, ctxArg, ckpt, fnCalls, fnOut>>
    /\ UNCHANGED <<chClosed, closes, rcvd, sinkVars, ctxErr, logVars, callVars>>

\* DeferRecover with close(doneCh) placed ahead of the send
DeferRecoverCloseFirst(g) ==
    /\ pc[g] = "deferred"
    /\ LET r == IF panicking[g] = NoPanic THEN NilErr ELSE panicking[g].v IN
       /\ panicking' = [panicking EXCEPT ![g] = NoPanic]
       /\ IF kind[g] \in ChanKinds
          THEN /\ err' = [err EXCEPT ![g] = IF r # NilErr THEN PanicError(r) ELSE @]
               /\ chClosed' = [chClosed EXCEPT ![g] = TRUE]
               /\ closes' = [closes EXCEPT ![g] = @ + 1]
               /\ pc' = [pc EXCEPT ![g] = "send"]
               /\ UNCHANGED pending
          ELSE /\ pending' = [pending EXCEPT ![g] =
                                 IF r # NilErr
                                 THEN IF kind[g] = "Go" THEN RecoveredMsg(r)
                                      ELSE ErrorsNew(RecoveredMsg(r))
                                 ELSE @]
               /\ pc' = [pc EXCEPT ![g] = IF r # NilErr THEN "deferSink" ELSE "done"]
               /\ UNCHANGED <<err, chClosed, closes>>
    /\ UNCHANGED <<kind, ctxArg, ckpt, fnCalls, fnOut>>
    /\ UNCHANGED <<chBuf, sent, rcvd, sinkVars, ctxErr, logVars, callVars>>

\* The deferred function starts: it recovers, and on r != nil it builds the
\* report of the panic.  Go and GoWithErrorHandler then call their sink, or
\* are finished when r == nil; ChanGo and ChanGoWithError store the
\* PanicError in err and go on to the send.
DeferRecover(g) ==
    /\ pc[g] = "deferred"
    /\ LET r == Recover(g) IN
       /\ panicking' = [panicking EXCEPT ![g] = NoPanic]
       /\ IF kind[g] \in ChanKinds
          THEN /\ err' = [err EXCEPT ![g] = IF r # NilErr THEN PanicReport(kind[g], r) ELSE @]
               /\ pc' = [pc EXCEPT ![g] = "send"]
               /\ UNCHANGED pending
          ELSE /\ pending' = [pending EXCEPT ![g] = IF r # NilErr THEN PanicReport(kind[g], r) ELSE @]
               /\ pc' = [pc EXCEPT ![g] = IF r # NilErr THEN "deferSink" ELSE "done"]
               /\ UNCHANGED err
    /\ UNCHANGED <<kind, ctxArg, ckpt, fnCalls, fnOut>>
    /\ UNCHANGED <<chanVars, sinkVars, ctxErr, logVars, callVars>>

\* DeferSinkReturns with the logger.Printf of Go's deferred function left
\* out: the recovered panic is swallowed without a record
DeferSinkReturnsSilent(g) ==
    /\ pc[g] = "deferSink"
    /\ IF kind[g] = "Go"
       THEN UNCHANGED <<logged, handlerArgs>>
       ELSE /\ handlerArgs' = [handlerArgs EXCEPT ![g] = Append(@, pending[g])]
            /\ UNCHANGED logged
    /\ pc' = [pc EXCEPT ![g] = "done"]
    /\ UNCHANGED <<kind, ctxArg, ckpt, fnCalls, fnOut, err, panicking, pending>>
    /\ UNCHANGED <<chanVars, handlerPanics, ctxErr, logVars, callVars>>

\* The sink call made from the deferred function returns; the goroutine ends.
DeferSinkReturns(g) ==
    /\ pc[g] = "deferSink"
    /\ IF kind[g] = "Go"
       THEN /\ logged' = [logged EXCEPT ![g] = LogPrintf(g, pending[g])]
            /\ UNCHANGED handlerArgs
       ELSE /\ handlerArgs' = [handlerArgs EXCEPT ![g] = Append(@, pending[g])]
            /\ UNCHANGED logged
    /\ pc' = [pc EXCEPT ![g] = "done"]
    /\ UNCHANGED <<kind, ctxArg, ckpt, fnCalls, fnOut, err, panicking, pending>>
    /\ UNCHANGED <<chanVars, handlerPanics, ctxErr, logVars, callVars>>

\* errorHandler, called from the deferred function, panics: nothing recovers
\* this panic and the goroutine ends with it
DeferSinkPanics(g) ==
    /\ pc[g] = "deferSink"
    /\ kind[g] = "GoWithErrorHandler"
    /\ handlerArgs' = [handlerArgs EXCEPT ![g] = Append(@, pending[g])]
    /\ handlerPanics' = [handlerPanics EXCEPT ![g] = @ + 1]
    /\ panicking' = [panicking EXCEPT ![g] = HandlerPanic]
    /\ pc' = [pc EXCEPT ![g] = "crashed"]
    /\ UNCHANGED <<kind, ctxArg, ckpt, fnCalls, fnOut, err, pending>>
    /\ UNCHANGED <<chanVars, logged, ctxErr, logVars, callVars>>

\* Send with the context looked at again: a context that is done by the
\* time of the send turns the outcome into a CancelError
SendCancelAware(g) ==
    /\ pc[g] = "send"
    /\ LET d == IF CtxDone(g) THEN Done(CancelError(ctxErr)) ELSE Done(err[g]) IN
       IF chClosed[g]
       THEN /\ panicking' = [panicking EXCEPT ![g] = RuntimePanic("send on closed channel")]
            /\ pc' = [pc EXCEPT ![g] = "crashed"]
            /\ UNCHANGED <<chBuf, sent>>
       ELSE /\ Len(chBuf[g]) < ChanCap
            /\ chBuf' = [chBuf EXCEPT ![g] = Append(@, d)]
            /\ sent' = [sent EXCEPT ![g] = Append(@, d)]
            /\ pc' = [pc EXCEPT ![g] = "close"]
            /\ UNCHANGED panicking
    /\ UNCHANGED <<kind, ctxArg, ckpt, fnCalls, fnOut, err, pending>>
    /\ UNCHANGED <<chClosed, closes, rcvd, sinkVars, ctxErr, logVars, callVars>>

\* Send with the send left out: the deferred function goes straight to the
\* close
SendSkipped(g) ==
    /\ pc[g] = "send"
    /\ pc' = [pc EXCEPT ![g] = "close"]
    /\ UNCHANGED <<kind, ctxArg, ckpt, fnCalls, fnOut, err, panicking, pending>>
    /\ UNCHANGED <<chanVars, sinkVars, ctxErr, logVars, callVars>>

\* Send with one err shared by the invocations instead of one per call:
\* every goroutine sends the err of the latest invocation that has left its
\* task body
SendSharedErr(g) ==
    /\ pc[g] = "send"
    /\ LET last == CHOOSE h \in DOMAIN pc :
                       /\ pc[h] \notin {"idle", "created", "running"}
                       /\ \A i \in DOMAIN pc :
                              pc[i] \notin {"idle", "created", "running"} => i <= h
           d == Done(err[last]) IN
       IF chClosed[g]
       THEN /\ panicking' = [panicking EXCEPT ![g] = RuntimePanic("send on closed channel")]
            /\ pc' = [pc EXCEPT ![g] = "crashed"]
            /\ UNCHANGED <<chBuf, sent>>
       ELSE /\ Len(chBuf[g]) < ChanCap
            /\ chBuf' = [chBuf EXCEPT ![g] = Append(@, d)]
            /\ sent' = [sent EXCEPT ![g] = Append(@, d)]
            /\ pc' = [pc EXCEPT ![g] = "close"]
            /\ UNCHANGED panicking
    /\ UNCHANGED <<kind, ctxArg, ckpt, fnCalls, fnOut, err, pending>>
    /\ UNCHANGED <<chClosed, closes, rcvd, sinkVars, ctxErr, logVars, callVars>>

\* doneCh <- Done{Error: err}.  A send on a closed channel panics; a send on
\* a full buffer blocks (the action is not enabled).
Send(g) ==
    /\ pc[g] = "send"
    /\ IF chClosed[g]
       THEN /\ panicking' = [panicking EXCEPT ![g] = RuntimePanic("send on closed channel")]
            /\ pc' = [pc EXCEPT ![g] = "crashed"]
            /\ UNCHANGED <<chBuf, sent>>
       ELSE /\ Len(chBuf[g]) < ChanCap
            /\ chBuf' = [chBuf EXCEPT ![g] = Append(@, Done(err[g]))]
            /\ sent' = [sent EXCEPT ![g] = Append(@, Done(err[g]))]
            /\ pc' = [pc EXCEPT ![g] = "close"]
            /\ UNCHANGED panicking
    /\ UNCHANGED <<kind, ctxArg, ckpt, fnCalls, fnOut, err, pending>>
    /\ UNCHANGED <<chClosed, closes, rcvd, sinkVars, ctxErr, logVars, callVars>>

\* Close with the close(doneCh) left out: the goroutine ends with the
\* channel still open
CloseSkipped(g) ==
    /\ pc[g] = "close"
    /\ pc' = [pc EXCEPT ![g] = "done"]
    /\ UNCHANGED <<kind, ctxArg, ckpt, fnCalls, fnOut, err, panicking, pending>>
    /\ UNCHANGED <<chanVars, sinkVars, ctxErr, logVars, callVars>>

\* close(doneCh); the deferred function returns and the goroutine ends.
\* A close of a closed channel panics.
Close(g) ==
    /\ pc[g] = "close"
    /\ IF chClosed[g]
       THEN /\ panicking' = [panicking EXCEPT ![g] = RuntimePanic("close of closed channel")]
            /\ pc' = [pc EXCEPT ![g] = "crashed"]
            /\ UNCHANGED <<chClosed, closes>>
       ELSE /\ chClosed' = [chClosed EXCEPT ![g] = TRUE]
            /\ closes' = [closes EXCEPT ![g] = @ + 1]
            /\ pc' = [pc EXCEPT ![g] = "done"]
            /\ UNCHANGED panicking
    /\ UNCHANGED <<kind, ctxArg, ckpt, fnCalls, fnOut, err, pending>>
    /\ UNCHANGED <<chBuf, sent, rcvd, sinkVars, ctxErr, logVars, callVars>>

\* The caller receives from the returned channel: the buffered Done, or the
\* zero value once the channel is closed and empty; it blocks otherwise.
Recv(g) ==
    /\ kind[g] \in ChanKinds
    /\ callPc[g] = "returned"
    /\ Len(rcvd[g]) < MaxRecv
    /\ IF chBuf[g] # <<>>
       THEN /\ rcvd' = [rcvd EXCEPT ![g] = Append(@, [Error |-> Head(chBuf[g]).Error, ok |-> TRUE])]
            /\ chBuf' = [chBuf EXCEPT ![g] = Tail(@)]
       ELSE /\ chClosed[g]
            /\ rcvd' = [rcvd EXCEPT ![g] = Append(@, ZeroDone)]
            /\ UNCHANGED chBuf
    /\ UNCHANGED <<taskVars, chClosed, sent, closes, sinkVars, ctxErr, logVars, callVars>>

Next ==
    \/ \E g \in Tasks, k \in Kinds, c \in CtxArgs : Launch(g, k, c)
    \/ \E g \in Tasks : LauncherReturns(g)
    \/ \E e \in CtxErrors : Cancel(e)
    \/ \E g \in Tasks : Checkpoint(g)
    \/ \E g \in Tasks : FnReturns(g)
    \/ \E g \in Tasks, e \in TaskErrors : FnReturnsError(g, e)
    \/ \E g \in Tasks, p \in Payloads : FnPanics(g, p)
    \/ \E g \in Tasks : SinkReturns(g)
    \/ \E g \in Tasks : SinkPanics(g)
    \/ \E g \in Tasks : DeferRecover(g)
    \/ \E g \in Tasks : DeferSinkReturns(g)
    \/ \E g \in Tasks : DeferSinkPanics(g)
    \/ \E g \in Tasks : Send(g)
    \/ \E g \in Tasks : Close(g)
    \/ \E g \in Tasks : Recv(g)

Spec == Init /\ [][Next]_vars

\* ------------------------------------------------- fair scheduling
\* ChanGo / ChanGoWithError invocations with their caller.  Which error or
\* panic value fn produces plays no part in whether a receive returns: one
\* of each is drawn.
NextChan ==
    \/ \E g \in Tasks, k \in ChanKinds, c \in CtxArgs : Launch(g, k, c)
    \/ \E g \in Tasks : LauncherReturns(g)
    \/ \E e \in {"context canceled"} : Cancel(e)
    \/ \E g \in Tasks : Checkpoint(g)
    \/ \E g \in Tasks : FnReturns(g)
    \/ \E g \in Tasks, e \in {TaskErr("X")} : FnReturnsError(g, e)
    \/ \E g \in Tasks, p \in {StrP("boom")} : FnPanics(g, p)
    \/ \E g \in Tasks : DeferRecover(g)
    \/ \E g \in Tasks : Send(g)
    \/ \E g \in Tasks : Close(g)
    \/ \E g \in Tasks : Recv(g)

\* The Go scheduler runs every runnable goroutine: the steps of the wrapper
\* around fn, the launcher's return and the caller's receive are taken when
\* they stay enabled.  Nothing obliges fn to finish, a caller to launch or
\* a context to be cancelled.
FairSteps ==
    \A g \in Tasks :
        /\ WF_vars(LauncherReturns(g))
        /\ WF_vars(Checkpoint(g))
        /\ WF_vars(DeferRecover(g))
        /\ WF_vars(Send(g))
        /\ WF_vars(Close(g))
        /\ WF_vars(Recv(g))

SpecFair == Init /\ [][NextChan]_vars /\ FairSteps

\* The same invocations with only the launched goroutine scheduled: the
\* caller may return from the launcher late or never, and may never
\* receive.
GoroutineSteps ==
    \A g \in Tasks :
        /\ WF_vars(Checkpoint(g))
        /\ WF_vars(DeferRecover(g))
        /\ WF_vars(Send(g))
        /\ WF_vars(Close(g))

SpecUnread == Init /\ [][NextChan]_vars /\ GoroutineSteps

\* ------------------------------------------------ concurrent invocations
\* A batch of ChanGo / ChanGoWithError invocations running side by side, as
\* in the loop of Example_batchProcessing: one more than Tasks holds, so
\* that there are always at least two.
Batch == 1..(MaxTasks + 1)

InitBatch ==
    /\ kind = [g \in Batch |-> "none"]
    /\ ctxArg = [g \in Batch |-> NoCtx]
    /\ pc = [g \in Batch |-> "idle"]
    /\ ckpt = [g \in Batch |-> "none"]
    /\ fnCalls = [g \in Batch |-> 0]
    /\ fnOut = [g \in Batch |-> NotRun]
    /\ err = [g \in Batch |-> NilErr]
    /\ panicking = [g \in Batch |-> NoPanic]
    /\ pending = [g \in Batch |-> NilErr]
    /\ chBuf = [g \in Batch |-> <<>>]
    /\ chClosed = [g \in Batch |-> FALSE]
    /\ sent = [g \in Batch |-> <<>>]
    /\ closes = [g \in Batch |-> 0]
    /\ rcvd = [g \in Batch |-> <<>>]
    /\ handlerArgs = [g \in Batch |-> <<>>]
    /\ handlerPanics = [g \in Batch |-> 0]
    /\ logged = [g \in Batch |-> <<>>]
    /\ ctxErr = CtxLive
    /\ logger = Iface(DefaultLogger)
    /\ callPc = [g \in Batch |-> "none"]
    /\ launchCtxErr = [g \in Batch |-> CtxLive]
    /\ cancelAt = [g \in Batch |-> "live"]
    /\ launchSet = [g \in Batch |-> "none"]
    /\ setPc = [c \in Setters |-> "idle"]
    /\ setArg = [c \in Setters |-> NilLogger]
    /\ lastSet = "none"

\* The caller launches the batch without a context and then reads each
\* channel; the task bodies return nil or an error, or panic.
NextBatch ==
    \/ \E g \in Batch, k \in ChanKinds : Launch(g, k, NoCtx)
    \/ \E g \in Batch : LauncherReturns(g)
    \/ \E g \in Batch : Checkpoint(g)
    \/ \E g \in Batch : FnReturns(g)
    \/ \E g \in Batch, e \in TaskErrors : FnReturnsError(g, e)
    \/ \E g \in Batch : FnPanics(g, StrP("boom"))
    \/ \E g \in Batch : DeferRecover(g)
    \/ \E g \in Batch : Send(g)
    \/ \E g \in Batch : Close(g)
    \/ \E g \in Batch : Recv(g)

SpecBatch == InitBatch /\ [][NextBatch]_vars

\* --------------------------------------- earlier channel implementations
\* src/unnamed/part_000: ChanGo / ChanGoWithError with a chan Done on which
\* the body and the deferred function both send.
\* src/unnamed/part_002: ChanGo / ChanGoWithError with a chan error that the
\* deferred function closes.
\* Both use the variables of the invocation as above; err stays nil, and
\* pending holds the error of the send the goroutine is about to make.

\* (part_000 and part_002 alike) The goroutine runs up to the call of fn:
\* on a done context it goes on to
\* send errors.New("goroutine cancelled: ...") and return, otherwise fn is
\* invoked.
EarlyCheckpoint(g) ==
    /\ pc[g] = "created"
    /\ IF CtxDone(g)
       THEN /\ ckpt' = [ckpt EXCEPT ![g] = "cancelled"]
            /\ pending' = [pending EXCEPT ![g] = ErrorsNew(CancelledMsg(ctxErr))]
            /\ pc' = [pc EXCEPT ![g] = "bodySend"]
            /\ UNCHANGED fnCalls
       ELSE /\ ckpt' = [ckpt EXCEPT ![g] = IF ctxArg[g] = NoCtx THEN "noctx" ELSE "live"]
            /\ fnCalls' = [fnCalls EXCEPT ![g] = @ + 1]
            /\ pc' = [pc EXCEPT ![g] = "running"]
            /\ UNCHANGED pending
    /\ UNCHANGED <<kind, ctxArg, fnOut, err, panicking>>
    /\ UNCHANGED <<chanVars, sinkVars, ctxErr, logVars, callVars>>

\* (part_000 and part_002 alike) fn of ChanGoWithError returns a non-nil
\* error: the body goes on to send it
EarlyFnReturnsError(g, e) ==
    /\ pc[g] = "running"
    /\ kind[g] = "ChanGoWithError"
    /\ fnOut' = [fnOut EXCEPT ![g] = ReturnedErr(e)]
    /\ pending' = [pending EXCEPT ![g] = e]
    /\ pc' = [pc EXCEPT ![g] = "bodySend"]
    /\ UNCHANGED <<kind, ctxArg, ckpt, fnCalls, err, panicking>>
    /\ UNCHANGED <<chanVars, sinkVars, ctxErr, logVars, callVars>>

\* doneCh <- Done{Error: ...} in the body, of the cancellation or of fn's
\* error; the body is over and the deferred function runs next
Part0BodySend(g) ==
    /\ pc[g] = "bodySend"
    /\ Len(chBuf[g]) < ChanCap
    /\ chBuf' = [chBuf EXCEPT ![g] = Append(@, Done(pending[g]))]
    /\ sent' = [sent EXCEPT ![g] = Append(@, Done(pending[g]))]
    /\ pc' = [pc EXCEPT ![g] = "deferred"]
    /\ UNCHANGED <<kind, ctxArg, ckpt, fnCalls, fnOut, err, panicking, pending>>
    /\ UNCHANGED <<chClosed, closes, rcvd, sinkVars, ctxErr, logVars, callVars>>

\* The deferred function starts: r := recover(); on r != nil it goes on to
\* send the error of the panic, otherwise to the send of Done{Error: nil}.
Part0DeferRecover(g) ==
    /\ pc[g] = "deferred"
    /\ LET r == Recover(g) IN
       /\ panicking' = [panicking EXCEPT ![g] = NoPanic]
       /\ pending' = [pending EXCEPT ![g] = IF r # NilErr THEN ErrorsNew(RecoveredMsg(r)) ELSE @]
       /\ pc' = [pc EXCEPT ![g] = IF r # NilErr THEN "panicSend" ELSE "send"]
    /\ UNCHANGED <<kind, ctxArg, ckpt, fnCalls, fnOut, err>>
    /\ UNCHANGED <<chanVars, sinkVars, ctxErr, logVars, callVars>>

\* doneCh <- Done{Error: errors.New("recovered from panic ...")} in the
\* deferred function; the send of Done{Error: nil} follows
Part0PanicSend(g) ==
    /\ pc[g] = "panicSend"
    /\ Len(chBuf[g]) < ChanCap
    /\ chBuf' = [chBuf EXCEPT ![g] = Append(@, Done(pending[g]))]
    /\ sent' = [sent EXCEPT ![g] = Append(@, Done(pending[g]))]
    /\ pc' = [pc EXCEPT ![g] = "send"]
    /\ UNCHANGED <<kind, ctxArg, ckpt, fnCalls, fnOut, err, panicking, pending>>
    /\ UNCHANGED <<chClosed, closes, rcvd, sinkVars, ctxErr, logVars, callVars>>

\* Send is doneCh <- Done{Error: nil} here (err is nil throughout), Close is
\* close(doneCh).
NextPart0 ==
    \/ \E g \in Tasks, k \in ChanKinds, c \in CtxArgs : Launch(g, k, c)
    \/ \E g \in Tasks : LauncherReturns(g)
    \/ \E e \in CtxErrors : Cancel(e)
    \/ \E g \in Tasks : EarlyCheckpoint(g)
    \/ \E g \in Tasks : FnReturns(g)
    \/ \E g \in Tasks, e \in TaskErrors : EarlyFnReturnsError(g, e)
    \/ \E g \in Tasks, p \in Payloads : FnPanics(g, p)
    \/ \E g \in Tasks : Part0BodySend(g)
    \/ \E g \in Tasks : Part0DeferRecover(g)
    \/ \E g \in Tasks : Part0PanicSend(g)
    \/ \E g \in Tasks : Send(g)
    \/ \E g \in Tasks : Close(g)
    \/ \E g \in Tasks : Recv(g)

SpecPart0 == Init /\ [][NextPart0]_vars

\* errChan <- ... in the body: the channel carries the error itself
Part2BodySend(g) ==
    /\ pc[g] = "bodySend"
    /\ Len(chBuf[g]) < ChanCap
    /\ chBuf' = [chBuf EXCEPT ![g] = Append(@, pending[g])]
    /\ sent' = [sent EXCEPT ![g] = Append(@, pending[g])]
    /\ pc' = [pc EXCEPT ![g] = "deferred"]
    /\ UNCHANGED <<kind, ctxArg, ckpt, fnCalls, fnOut, err, panicking, pending>>
    /\ UNCHANGED <<chClosed, closes, rcvd, sinkVars, ctxErr, logVars, callVars>>

\* The deferred function starts: r := recover(); on r != nil it goes on to
\* send the error of the panic, otherwise straight to close(errChan).
Part2DeferRecover(g) ==
    /\ pc[g] = "deferred"
    /\ LET r == Recover(g) IN
       /\ panicking' = [panicking EXCEPT ![g] = NoPanic]
       /\ pending' = [pending EXCEPT ![g] = IF r # NilErr THEN ErrorsNew(RecoveredMsg(r)) ELSE @]
       /\ pc' = [pc EXCEPT ![g] = IF r # NilErr THEN "panicSend" ELSE "close"]
    /\ UNCHANGED <<kind, ctxArg, ckpt, fnCalls, fnOut, err>>
    /\ UNCHANGED <<chanVars, sinkVars, ctxErr, logVars, callVars>>

\* errChan <- errors.New("recovered from panic ...") in the deferred
\* function; close(errChan) follows
Part2PanicSend(g) ==
    /\ pc[g] = "panicSend"
    /\ Len(chBuf[g]) < ChanCap
    /\ chBuf' = [chBuf EXCEPT ![g] = Append(@, pending[g])]
    /\ sent' = [sent EXCEPT ![g] = Append(@, pending[g])]
    /\ pc' = [pc EXCEPT ![g] = "close"]
    /\ UNCHANGED <<kind, ctxArg, ckpt, fnCalls, fnOut, err, panicking, pending>>
    /\ UNCHANGED <<chClosed, closes, rcvd, sinkVars, ctxErr, logVars, callVars>>

\* The caller receives from the chan error: the buffered error, or the zero
\* value (nil) once the channel is closed and empty; it blocks otherwise.
Part2Recv(g) ==
    /\ kind[g] \in ChanKinds
    /\ callPc[g] = "returned"
    /\ Len(rcvd[g]) < MaxRecv
    /\ IF chBuf[g] # <<>>
       THEN /\ rcvd' = [rcvd EXCEPT ![g] = Append(@, [Error |-> Head(chBuf[g]), ok |-> TRUE])]
            /\ chBuf' = [chBuf EXCEPT ![g] = Tail(@)]
       ELSE /\ chClosed[g]
            /\ rcvd' = [rcvd EXCEPT ![g] = Append(@, ZeroDone)]
            /\ UNCHANGED chBuf
    /\ UNCHANGED <<taskVars, chClosed, sent, closes, sinkVars, ctxErr, logVars, callVars>>

NextPart2 ==
    \/ \E g \in Tasks, k \in ChanKinds, c \in CtxArgs : Launch(g, k, c)
    \/ \E g \in Tasks : LauncherReturns(g)
    \/ \E e \in CtxErrors : Cancel(e)
    \/ \E g \in Tasks : EarlyCheckpoint(g)
    \/ \E g \in Tasks : FnReturns(g)
    \/ \E g \in Tasks, e \in TaskErrors : EarlyFnReturnsError(g, e)
    \/ \E g \in Tasks, p \in Payloads : FnPanics(g, p)
    \/ \E g \in Tasks : Part2BodySend(g)
    \/ \E g \in Tasks : Part2DeferRecover(g)
    \/ \E g \in Tasks : Part2PanicSend(g)
    \/ \E g \in Tasks : Close(g)
    \/ \E g \in Tasks : Part2Recv(g)

SpecPart2 == Init /\ [][NextPart2]_vars

\* ------------------------------------------------------------- SetLogger
\* what the assignment in progress stores: l for logger = l, the noop
\* logger for logger = &noopLogger{}
SetTarget(c) == IF setPc[c] \in {"tabL", "dataL"} THEN setArg[c] ELSE NoopLogger

\* SetLoggerCall without the noop fallback: if l != nil { logger = l } and
\* nothing else, so that SetLogger(nil) leaves the logger as it was
SetLoggerCallNoFallback(c, l) ==
    /\ setPc[c] = "idle"
    /\ \A d \in Setters : d < c => setPc[d] = "returned"
    /\ setArg' = [setArg EXCEPT ![c] = l]
    /\ setPc' = [setPc EXCEPT ![c] = IF l # NilLogger THEN "tabL" ELSE "ret"]
    /\ UNCHANGED <<logger, lastSet>>
    /\ UNCHANGED <<taskVars, chanVars, sinkVars, ctxErr, callVars>>

\* SetLoggerCall without the test l != nil: logger = l is executed for a
\* nil l too, before logger = &noopLogger{}
SetLoggerCallUnchecked(c, l) ==
    /\ setPc[c] = "idle"
    /\ \A d \in Setters : d < c => setPc[d] = "returned"
    /\ setArg' = [setArg EXCEPT ![c] = l]
    /\ setPc' = [setPc EXCEPT ![c] = "tabL"]
    /\ UNCHANGED <<logger, lastSet>>
    /\ UNCHANGED <<taskVars, chanVars, sinkVars, ctxErr, callVars>>

\* The configuring goroutine calls SetLogger(l), one call after the other;
\* the test l != nil selects the first assignment: logger = l, or directly
\* logger = &noopLogger{}.
SetLoggerCall(c, l) ==
    /\ setPc[c] = "idle"
    /\ \A d \in Setters : d < c => setPc[d] = "returned"
    /\ setArg' = [setArg EXCEPT ![c] = l]
    /\ setPc' = [setPc EXCEPT ![c] = IF l # NilLogger THEN "tabL" ELSE "tabN"]
    /\ UNCHANGED <<logger, lastSet>>
    /\ UNCHANGED <<taskVars, chanVars, sinkVars, ctxErr, callVars>>

\* An assignment to logger stores the type word of the interface value.
\* logger is a plain package variable, written without synchronisation, and
\* an interface value is two machine words stored one after the other.
SetLoggerStoreTab(c) ==
    /\ setPc[c] \in {"tabL", "tabN"}
    /\ logger' = [logger EXCEPT !.tab = SetTarget(c)]
    /\ setPc' = [setPc EXCEPT ![c] = IF @ = "tabL" THEN "dataL" ELSE "dataN"]
    /\ UNCHANGED <<setArg, lastSet>>
    /\ UNCHANGED <<taskVars, chanVars, sinkVars, ctxErr, callVars>>

\* The assignment stores the data word.  After logger = l the function goes
\* on, unconditionally, to logger = &noopLogger{}.
SetLoggerStoreData(c) ==
    /\ setPc[c] \in {"dataL", "dataN"}
    /\ logger' = [logger EXCEPT !.data = SetTarget(c)]
    /\ setPc' = [setPc EXCEPT ![c] = IF @ = "dataL" THEN "tabN" ELSE "ret"]
    /\ UNCHANGED <<setArg, lastSet>>
    /\ UNCHANGED <<taskVars, chanVars, sinkVars, ctxErr, callVars>>

\* SetLogger returns to its caller.
SetLoggerReturns(c) ==
    /\ setPc[c] = "ret"
    /\ setPc' = [setPc EXCEPT ![c] = "returned"]
    /\ lastSet' = setArg[c]
    /\ UNCHANGED <<logger, setArg>>
    /\ UNCHANGED <<taskVars, chanVars, sinkVars, ctxErr, callVars>>

\* Go tasks running while the logger is replaced.  The return of Go to its
\* caller, on which no step of the task or of SetLogger depends, is a step
\* of Next only.
NextLogger ==
    \/ \E g \in Tasks, c \in CtxArgs : Launch(g, "Go", c)
    \/ \E e \in CtxErrors : Cancel(e)
    \/ \E g \in Tasks : Checkpoint(g)
    \/ \E g \in Tasks : FnReturns(g)
    \/ \E g \in Tasks, p \in Payloads : FnPanics(g, p)
    \/ \E g \in Tasks : SinkReturns(g)
    \/ \E g \in Tasks : DeferRecover(g)
    \/ \E g \in Tasks : DeferSinkReturns(g)
    \/ \E c \in Setters, l \in LoggerArgs : SetLoggerCall(c, l)
    \/ \E c \in Setters : SetLoggerStoreTab(c)
    \/ \E c \in Setters : SetLoggerStoreData(c)
    \/ \E c \in Setters : SetLoggerReturns(c)

SpecLogger == Init /\ [][NextLogger]_vars

\* =================================================================== claims
ChanTasks == {g \in Tasks : kind[g] \in ChanKinds}
Ended(g) == pc[g] \in {"done", "crashed"}

\* C1: on the channel of every ChanGo / ChanGoWithError invocation at most
\* one Done is ever sent and the channel is closed at most once; it is closed
\* only after that one Done was sent; no send or close is attempted on the
\* closed channel (the goroutine never dies of the runtime's panic for it);
\* and a goroutine that has ended has sent exactly one Done and closed the
\* channel exactly once, whatever fn did and whatever the context's state.
C1_OneSendThenOneClose ==
    \A g \in ChanTasks :
        /\ Len(sent[g]) <= 1
        /\ closes[g] <= 1
        /\ chClosed[g] => (Len(sent[g]) = 1 /\ closes[g] = 1)
        /\ pc[g] # "crashed"
        /\ panicking[g].origin # "runtime"
        /\ Ended(g) => (Len(sent[g]) = 1 /\ closes[g] = 1 /\ chClosed[g])

\* a ChanGo goroutine whose fn panicked has sent its one Done and closed
C1_Witness ==
    \E g \in ChanTasks :
        /\ fnOut[g].t = "panic"
        /\ pc[g] = "done"
        /\ Len(sent[g]) = 1
        /\ chClosed[g]
        /\ Len(rcvd[g]) = 2

\* C2: when fn of ChanGo / ChanGoWithError panicked with payload P, every
\* Done sent on the channel carries a PanicError whose Value is P and whose
\* StackTrace is not empty, and the ended goroutine has sent such a Done.
C2_PanicDeliveredAsPanicError ==
    \A g \in ChanTasks :
        fnOut[g].t = "panic" =>
            /\ \A i \in 1..Len(sent[g]) :
                  /\ sent[g][i].Error.type = "PanicError"
                  /\ sent[g][i].Error.Value = fnOut[g].v
                  /\ sent[g][i].Error.StackTrace # ""
            /\ Ended(g) => sent[g] # <<>>

\* an int payload was delivered as the Value of a PanicError
C2_Witness ==
    \E g \in ChanTasks :
        /\ fnOut[g] = Panicked(IntP(7))
        /\ sent[g] = <<Done(PanicError(IntP(7)))>>
        /\ <<>> # rcvd[g] /\ rcvd[g][1].Error.Value = IntP(7)

\* C3: in every launcher, a goroutine that takes its checkpoint step while a
\* context was supplied and that context is done does not invoke fn in that
\* step, and fn is not invoked in any later step of the invocation either.
C3_CancelledAtCheckpointSkipsFn ==
    [][\A g \in Tasks :
         /\ (/\ pc[g] = "created"
             /\ pc'[g] # "created"
             /\ ctxArg[g] # NoCtx
             /\ ctxErr # CtxLive)
            => (fnCalls'[g] = 0 /\ fnOut'[g] = NotRun /\ ckpt'[g] = "cancelled")
         /\ ckpt[g] = "cancelled" => (fnCalls'[g] = 0 /\ fnOut'[g] = NotRun)]_vars

\* a fire-and-forget invocation whose context was done at the checkpoint has
\* ended without fn having been invoked
C3_Witness ==
    \E g \in Tasks :
        /\ kind[g] \in {"Go", "GoWithErrorHandler"}
        /\ ckpt[g] = "cancelled"
        /\ pc[g] = "done"
        /\ fnCalls[g] = 0

\* C4: when the context of a ChanGo / ChanGoWithError invocation was already
\* done at the checkpoint (so in particular when it was cancelled before the
\* launch), the Done sent is a CancelError whose Cause is the context's
\* error, and the ended goroutine has sent exactly that one Done.
C4_CancelDeliveredAsCancelError ==
    \A g \in ChanTasks :
        ckpt[g] = "cancelled" =>
            /\ ctxErr \in CtxErrors
            /\ sent[g] \in {<<>>, <<Done(CancelError(ctxErr))>>}
            /\ Ended(g) => sent[g] = <<Done(CancelError(ctxErr))>>

\* a deadline-exceeded context produced a CancelError with that cause, and
\* the caller received it
C4_Witness ==
    \E g \in ChanTasks :
        /\ ckpt[g] = "cancelled"
        /\ ctxErr = "context deadline exceeded"
        /\ rcvd[g] # <<>>
        /\ rcvd[g][1] = [Error |-> CancelError("context deadline exceeded"), ok |-> TRUE]

C6_TaskErrorDeliveredUnwrapped ==
    \A g \in Tasks :
        (kind[g] = "ChanGoWithError" /\ fnOut[g].t = "error") =>
            /\ fnOut[g].e \in TaskErrors
            /\ sent[g] \in {<<>>, <<Done(fnOut[g].e)>>}
            /\ Ended(g) => sent[g] = <<Done(fnOut[g].e)>>

\* the error "X" returned by fn was received as Done.Error
C6_Witness ==
    \E g \in Tasks :
        /\ kind[g] = "ChanGoWithError"
        /\ fnOut[g] = ReturnedErr(TaskErr("X"))
        /\ rcvd[g] # <<>>
        /\ rcvd[g][1] = [Error |-> TaskErr("X"), ok |-> TRUE]

C8_HandlerInvokedAtMostOnce ==
    \A g \in Tasks : kind[g] = "GoWithErrorHandler" => Len(handlerArgs[g]) <= 1

\* C9: when fn of GoWithErrorHandler returned a non-nil error X and nothing
\* panicked in the invocation (neither fn nor errorHandler), errorHandler is
\* invoked with X and with nothing else, and by the time the goroutine has
\* ended it has been invoked exactly once.
C9_HandlerGetsTaskErrorOnce ==
    \A g \in Tasks :
        (kind[g] = "GoWithErrorHandler" /\ fnOut[g].t = "error" /\ handlerPanics[g] = 0) =>
            /\ handlerArgs[g] \in {<<>>, <<fnOut[g].e>>}
            /\ pc[g] \notin {"running", "sink"} => handlerArgs[g] = <<fnOut[g].e>>
            /\ pc[g] # "crashed"

\* the handler was called once with "X" and the goroutine is done
C9_Witness ==
    \E g \in Tasks :
        /\ kind[g] = "GoWithErrorHandler"
        /\ fnOut[g] = ReturnedErr(TaskErr("X"))
        /\ pc[g] = "done"
        /\ handlerArgs[g] = <<TaskErr("X")>>

\* C10: in GoWithErrorHandler the handler receives typed errors: a
\* PanicError with Value P and a non-empty trace when fn panicked with P, a
\* CancelError with the context's error as Cause when the context was done
\* at the checkpoint.
C10_HandlerGetsTypedErrors ==
    \A g \in Tasks :
        kind[g] = "GoWithErrorHandler" =>
            /\ (fnOut[g].t = "panic" /\ handlerArgs[g] # <<>>) =>
                  /\ handlerArgs[g][1].type = "PanicError"
                  /\ handlerArgs[g][1] = PanicError(fnOut[g].v)
            /\ (ckpt[g] = "cancelled" /\ handlerArgs[g] # <<>>) =>
                  /\ handlerArgs[g][1].type = "CancelError"
                  /\ handlerArgs[g][1] = CancelError(ctxErr)
GoTasks == {g \in Tasks : kind[g] = "Go"}
LoggedMsgs(g) == {logged[g][i].msg : i \in 1..Len(logged[g])}
LoggedBy(g) == {logged[g][i].logger : i \in 1..Len(logged[g])}

\* C11: in every Go invocation logger.Printf is called at most once; when fn
\* panicked with payload P the ended goroutine has called it exactly once,
\* with the message of the recovered panic formatted from P; when the context
\* was done at the checkpoint it has called it exactly once, with the
\* cancellation message formatted from the context's error; when fn returned
\* normally it is never called.
C11_GoLogsFailuresOnce ==
    \A g \in GoTasks :
        /\ Len(logged[g]) <= 1
        /\ fnOut[g].t = "panic" =>
              /\ LoggedMsgs(g) \subseteq {RecoveredMsg(fnOut[g].v)}
              /\ Ended(g) => Len(logged[g]) = 1
        /\ ckpt[g] = "cancelled" =>
              /\ LoggedMsgs(g) \subseteq {CancelledMsg(ctxErr)}
              /\ pc[g] # "sink" => Len(logged[g]) = 1
        /\ fnOut[g] = Returned => logged[g] = <<>>
        /\ pc[g] # "crashed"

\* a Go task that panicked with the int 7 has ended with one Printf call
C11_Witness ==
    \E g \in GoTasks :
        /\ fnOut[g] = Panicked(IntP(7))
        /\ pc[g] = "done"
        /\ Len(logged[g]) = 1
        /\ logged[g][1].msg = "recovered from panic in goroutine: 7"
\* C12: when SetLogger(l) with a non-nil l was the last SetLogger call to
\* return before a Go task was launched (none being in progress, then or
\* now), every Printf call of that task goes to l.
C12_SetLoggerRoutesToNewLogger ==
    \A g \in GoTasks :
        (launchSet[g] = CustomLogger /\ lastSet = CustomLogger /\ ~SetInProgress) =>
            LoggedBy(g) \subseteq {Iface(CustomLogger)}

\* C13: when SetLogger(nil) was the last SetLogger call to return and none
\* is in progress, the logger variable holds the noop logger, and every
\* Printf call of a Go task launched after that return went to the noop
\* logger, whose Printf records nothing and returns: the goroutine never
\* ends by a panic.
C13_SetLoggerNilInstallsNoop ==
    (lastSet = NilLogger /\ ~SetInProgress) =>
        /\ logger = Iface(NoopLogger)
        /\ \A g \in GoTasks :
              launchSet[g] = NilLogger =>
                  /\ LoggedBy(g) \subseteq {Iface(NoopLogger)}
                  /\ pc[g] # "crashed"

\* a Go task launched after SetLogger(nil) returned panicked, and its one
\* Printf call went to the noop logger
C13_Witness ==
    \E g \in GoTasks :
        /\ launchSet[g] = NilLogger
        /\ lastSet = NilLogger
        /\ fnOut[g].t = "panic"
        /\ pc[g] = "done"
        /\ LoggedBy(g) = {Iface(NoopLogger)}
\* the outcome the task body determines: nil, fn's own error, or the
\* PanicError of its panic
BodyOutcome(g) ==
    IF fnOut[g].t = "error" THEN fnOut[g].e
    ELSE IF fnOut[g].t = "panic" THEN PanicError(fnOut[g].v)
    ELSE NilErr

\* the texts the wrappers report for a cancellation
CancelReports == {CancelledMsg(e) : e \in CtxErrors}

C15_CancelAfterLaunchDeliversCancelError ==
    [][\A g \in Tasks :
         (/\ kind[g] = "ChanGo"
          /\ ctxArg[g] = TheCtx
          /\ launchCtxErr[g] = CtxLive
          /\ ctxErr # CtxLive
          /\ cancelAt[g] = "returned"
          /\ rcvd[g] = <<>>
          /\ rcvd'[g] # <<>>)
         => rcvd'[g][1].Error = CancelError(ctxErr)]_vars

\* C16: while a launcher call is in progress its return is enabled, whatever
\* the position of the launched goroutine and the state of the channel: the
\* launcher waits for no step of the task and for no receive.
C16_LauncherReturnsWithoutWaiting ==
    \A g \in Tasks : callPc[g] = "called" => ENABLED LauncherReturns(g)

\* the launcher has returned while fn is still running and nothing was
\* received from the channel
C16_Witness ==
    \E g \in ChanTasks :
        /\ callPc[g] = "returned"
        /\ pc[g] = "running"
        /\ sent[g] = <<>>
        /\ rcvd[g] = <<>>

\* C17: the first receive on the channel of ChanGo / ChanGoWithError yields
\* the Done that was sent, never the zero value of a closed channel; every
\* later receive finds the channel closed and empty.
C17_FirstReceiveIsTheDone ==
    \A g \in ChanTasks :
        /\ rcvd[g] # <<>> =>
              /\ sent[g] # <<>>
              /\ rcvd[g][1] = [Error |-> sent[g][1].Error, ok |-> TRUE]
        /\ \A i \in 2..Len(rcvd[g]) :
              /\ rcvd[g][i] = ZeroDone
              /\ chClosed[g]
              /\ chBuf[g] = <<>>

\* the caller received the error of fn and then the zero value of the
\* closed channel
C17_Witness ==
    \E g \in ChanTasks :
        rcvd[g] = <<[Error |-> TaskErr("task failed"), ok |-> TRUE], ZeroDone>>

\* C18: a receive on the channel returns nothing before the Done was sent;
\* and, the goroutine and the caller being scheduled fairly, once fn has
\* finished (returned or panicked) or was skipped at the checkpoint, the
\* caller's receive eventually returns the Done.
C18_ReceiveEventuallyReturns ==
    \A g \in Tasks :
        /\ [](rcvd[g] # <<>> => sent[g] # <<>>)
        /\ (kind[g] \in ChanKinds /\ (fnOut[g] # NotRun \/ ckpt[g] = "cancelled"))
              ~> (rcvd[g] # <<>> /\ rcvd[g][1].ok)

\* the goroutine is about to send after a panic of fn and the caller has
\* received nothing yet
C18_Witness ==
    \E g \in ChanTasks :
        /\ fnOut[g].t = "panic"
        /\ pc[g] = "send"
        /\ callPc[g] = "returned"
        /\ rcvd[g] = <<>>

\* C19: a Done is in the channel, or was received, only when the task body
\* has finished (returned or panicked) or was skipped at the checkpoint.
C19_DoneOnlyAfterBody ==
    \A g \in ChanTasks :
        (sent[g] # <<>> \/ chBuf[g] # <<>> \/ rcvd[g] # <<>>) =>
            /\ pc[g] \notin {"idle", "created", "running"}
            /\ \/ fnOut[g] # NotRun
               \/ (ckpt[g] = "cancelled" /\ fnCalls[g] = 0)

\* the Done of a task body that returned an error is in the channel, not
\* yet received
C19_Witness ==
    \E g \in ChanTasks :
        /\ fnOut[g].t = "error"
        /\ chBuf[g] = <<Done(fnOut[g].e)>>
        /\ rcvd[g] = <<>>

\* C20: the logger a Go task reads for its Printf call is a whole logger
\* value: the one installed before a SetLogger call (the default logger, or
\* the noop logger left by an earlier call) or the one that call has
\* installed when it returns (the noop logger).
C20_LoggerReadIsOldOrNew ==
    \A g \in GoTasks : LoggedBy(g) \subseteq {Iface(DefaultLogger), Iface(NoopLogger)}
\* C21: with several ChanGo / ChanGoWithError invocations running side by
\* side, what the caller reads first from the channel of invocation g is
\* the outcome of task g alone: Error is nil exactly when task g returned
\* nil, and is otherwise the error task g returned (or the PanicError of
\* task g's panic), whatever the other tasks did.
C21_EachChannelDeliversItsOwnOutcome ==
    \A g \in DOMAIN kind :
        rcvd[g] # <<>> =>
            /\ rcvd[g][1].ok
            /\ rcvd[g][1].Error = BodyOutcome(g)
            /\ (rcvd[g][1].Error = NilErr) <=> (fnOut[g] = Returned)

\* two invocations whose Done were both read: one task returned nil, the
\* other an error
C21_Witness ==
    \E g, h \in DOMAIN kind :
        /\ g # h
        /\ rcvd[g] # <<>> /\ rcvd[h] # <<>>
        /\ fnOut[g] = Returned
        /\ fnOut[h] = ReturnedErr(TaskErr("task failed"))
        /\ rcvd[h][1].Error = TaskErr("task failed")
\* C22: in src/unnamed/part_000 the channel of every ChanGo /
\* ChanGoWithError invocation is sent at most one Done, is closed only
\* after that one Done, and a goroutine that has ended has sent exactly
\* one Done and closed the channel, whatever the outcome of the task.
C22_Part0OneDoneThenClose ==
    \A g \in ChanTasks :
        /\ Len(sent[g]) <= 1
        /\ closes[g] <= 1
        /\ chClosed[g] => Len(sent[g]) = 1
        /\ Ended(g) => (Len(sent[g]) = 1 /\ chClosed[g])

\* C23: in src/unnamed/part_002 exactly one value is written to the chan
\* error of every ChanGo / ChanGoWithError invocation before it is closed:
\* never a second write, never a second close, and no close of a channel
\* nothing was written to, whatever the outcome of the task.
C23_Part2OneValueThenClose ==
    \A g \in ChanTasks :
        /\ Len(sent[g]) <= 1
        /\ closes[g] <= 1
        /\ pc[g] # "crashed"
        /\ chClosed[g] => Len(sent[g]) = 1
C25_GoroutineNeverBlocksOnSend ==
    \A g \in Tasks :
        /\ [](pc[g] = "send" => ENABLED Send(g))
        /\ [](pc[g] = "close" => ENABLED Close(g))
        /\ (kind[g] \in ChanKinds /\ (fnOut[g] # NotRun \/ ckpt[g] = "cancelled"))
              ~> (pc[g] = "done" /\ Len(sent[g]) = 1 /\ chClosed[g])

\* the goroutine has sent, closed and ended while the caller has received
\* nothing
C25_Witness ==
    \E g \in ChanTasks :
        /\ pc[g] = "done"
        /\ chBuf[g] # <<>>
        /\ chClosed[g]
        /\ rcvd[g] = <<>>

\* C26: fn is never invoked a second time; the step of the goroutine past
\* its checkpoint invokes fn when no context was supplied or the supplied
\* context is not done at that moment; and an invocation of fn is never
\* undone.
C26_FnInvokedOnce ==
    [][\A g \in Tasks :
         /\ fnCalls'[g] <= 1
         /\ (/\ pc[g] = "created"
             /\ pc'[g] # "created"
             /\ (ctxArg[g] = NoCtx \/ ctxErr = CtxLive))
            => fnCalls'[g] = 1
         /\ fnCalls[g] = 1 => fnCalls'[g] = 1]_vars

\* fn was invoked once with a context supplied, the context was cancelled
\* afterwards and the goroutine has ended
C26_Witness ==
    \E g \in Tasks :
        /\ ctxArg[g] = TheCtx
        /\ ckpt[g] = "live"
        /\ ctxErr # CtxLive
        /\ fnCalls[g] = 1
        /\ Ended(g)

\* C27: neither word of the logger variable is ever nil, during and after
\* any SetLogger call, with a nil or a non-nil argument, and no Printf
\* call of a Go task was made on a logger with a nil word.
C27_LoggerNeverNil ==
    /\ logger.tab # NilLogger
    /\ logger.data # NilLogger
    /\ \A g \in GoTasks :
          \A x \in LoggedBy(g) : x.tab # NilLogger /\ x.data # NilLogger

\* a Go task has logged its panic while SetLogger(nil) was storing
C27_Witness ==
    \E g \in GoTasks, c \in Setters :
        /\ setArg[c] = NilLogger
        /\ setPc[c] = "dataN"
        /\ fnOut[g].t = "panic"
        /\ pc[g] = "done"
        /\ LoggedBy(g) # {}
====
